---- MODULE Spec2Model ----
(***************************************************************************)
(* A model of lib_mail.mailbox.Mailbox: one IMAP session object with its   *)
(* watermark (self.uid), the server folder it talks to, and the results of *)
(* its operations.                                                         *)
(*                                                                         *)
(* Python values are encoded as follows.  None is the empty tuple and an   *)
(* optional value x is <<x>>; a str / bytes value is a tuple of one-       *)
(* character strings ("10" is <<"1","0">>); a list is a tuple.             *)
(***************************************************************************)
EXTENDS Integers, Sequences, FiniteSets

VARIABLES
    imap_server,  \* self.imap_server: "None", or the imaplib state of the object
    uid,          \* self.uid, the watermark: None or Some(n)
    uid_value,    \* the offset given to the initialize_uid call that last assigned self.uid
    folder,       \* server: UIDs of the messages in the selected folder
    deleted,      \* server: UIDs carrying the \Deleted flag
    flagged,      \* server: UIDs carrying the \Flagged flag
    uidnext,      \* server: the UID the next arriving message gets
    op,           \* the operation called last ("Arrive" once a message has arrived since)
    uids,         \* its list argument (None when it was given None or takes none)
    fed,          \* whether that argument was the value list_uids had just returned
    fails,        \* the identifiers of that argument whose fetch / decode / store failed
    reply,        \* the line the server sent for its UID SEARCH (None: no reply)
    ret,          \* what it returned: None or Some(value)
    raised,       \* whether it raised to its caller
    records,      \* the (Invoice, IDOC) pairs it yielded
    hset_calls,   \* the hset commands it sent to rclient
    args,         \* the arguments of should_process / extract_business_ (None for the others)
    expunged      \* the messages the EXPUNGE of the last call removed

vars == <<imap_server, uid, uid_value, folder, deleted, flagged, uidnext,
          op, uids, fed, fails, reply, ret, raised, records, hset_calls, args,
          expunged>>

server_vars == <<folder, deleted, flagged, uidnext>>

(***************************************************************************)
(* Bounds of the model.                                                    *)
(***************************************************************************)
\* how many messages ever arrive in the folder
MaxMsgs == 2
\* the largest small offset given to initialize_uid
MaxOffset == 1
\* the longest identifier list a caller passes in
MaxBatch == 2
\* the longest subject given to should_process
MaxSubject == 2
\* the longest string given to extract_business_
MaxAddress == 5

\* radix of the decimal identifiers the server sends and int() parses
Base == 10
\* the first UID the server assigns: one below the radix so that identifiers
\* of one and of two digits both occur
FirstUid == Base - 1
LastUid == FirstUid + MaxMsgs - 1
\* an offset larger than every UID (a rewind past the start of the folder)
BigOffset == LastUid + 1
Offsets == (0..MaxOffset) \cup {BigOffset}

(***************************************************************************)
(* Python values.                                                          *)
(***************************************************************************)
None == <<>>
Some(x) == <<x>>
Val(o) == o[1]

Digits == <<"0", "1", "2", "3", "4", "5", "6", "7", "8", "9">>

RECURSIVE str_nat(_)
str_nat(n) ==
    IF n < Base THEN <<Digits[n + 1]>>
    ELSE Append(str_nat(n \div Base), Digits[(n % Base) + 1])

\* str(n) / f"{n}" of an integer
str(n) == IF n < 0 THEN <<"-">> \o str_nat(-n) ELSE str_nat(n)

DigitVal(c) == CHOOSE d \in 0..(Base - 1) : Digits[d + 1] = c

RECURSIVE int_nat(_)
int_nat(s) ==
    IF Len(s) = 1 THEN DigitVal(s[1])
    ELSE Base * int_nat(SubSeq(s, 1, Len(s) - 1)) + DigitVal(s[Len(s)])

\* int(s) of a decimal string
int(s) == IF s[1] = "-" THEN -int_nat(Tail(s)) ELSE int_nat(s)

\* whether int(s) raises ValueError
IsDecimal(s) ==
    LET d == IF s # <<>> /\ s[1] = "-" THEN Tail(s) ELSE s
    IN  d # <<>> /\ \A i \in 1..Len(d) : \E k \in 1..Base : Digits[k] = d[i]

\* bytes.split(): the maximal runs of non-blank characters, in order
RECURSIVE split(_)
split(line) ==
    IF line = <<>> THEN <<>>
    ELSE IF line[1] = " " THEN split(Tail(line))
    ELSE LET ends == {i \in 1..Len(line) : line[i] = " "}
             stop == IF ends = {} THEN Len(line) + 1
                     ELSE CHOOSE i \in ends : \A j \in ends : i <= j
         IN  <<SubSeq(line, 1, stop - 1)>> \o split(SubSeq(line, stop, Len(line)))

Max(S) == CHOOSE m \in S : \A n \in S : n <= m
Range(s) == {s[i] : i \in 1..Len(s)}

(***************************************************************************)
(* The IMAP server.                                                        *)
(***************************************************************************)
\* every order in which the server may list a set of UIDs
Orders(S) ==
    {f \in [1..Cardinality(S) -> S] : \A i, j \in 1..Cardinality(S) : f[i] = f[j] => i = j}

\* the untagged SEARCH line for a listing: the UIDs in decimal, blank-separated
RECURSIVE SearchLine(_)
SearchLine(listing) ==
    IF listing = <<>> THEN <<>>
    ELSE IF Len(listing) = 1 THEN str(listing[1])
    ELSE str(listing[1]) \o <<" ">> \o SearchLine(Tail(listing))

\* UID SEARCH ALL
SearchAll == folder

\* UID SEARCH UID n:* -- "*" is the highest UID in the folder and a range
\* covers both of its ends in either order, so n above the highest UID
\* yields the highest UID
SearchFrom(n) ==
    IF folder = {} THEN {}
    ELSE LET top == Max(folder)
             lo  == IF n < top THEN n ELSE top
         IN  {u \in folder : u >= lo}

\* whether imaplib sends a UID command at all: only in its SELECTED state
CanCommand == imap_server = "SELECTED"

(***************************************************************************)
(* Mailbox.__init__ / _connect                                             *)
(***************************************************************************)
ConnectOutcomes == {"ssl_fails", "login_fails", "select_fails", "ok"}

\* self.imap_server after _connect, whose except clause swallows every failure
_connect(outcome) ==
    CASE outcome = "ssl_fails"    -> "None"
      [] outcome = "login_fails"  -> "NONAUTH"
      [] outcome = "select_fails" -> "AUTH"
      [] OTHER                    -> "SELECTED"

Init ==
    /\ imap_server \in {_connect(o) : o \in ConnectOutcomes}
    /\ uid = None
    /\ uid_value = 0
    /\ folder = {}
    /\ deleted = {}
    /\ flagged = {}
    /\ uidnext = FirstUid
    /\ op = "__init__"
    /\ uids = None
    /\ fed = FALSE
    /\ fails = {}
    /\ reply = None
    /\ ret = None
    /\ raised = FALSE
    /\ records = <<>>
    /\ hset_calls = <<>>
    /\ args = None
    /\ expunged = {}

\* what a call leaves in the variables describing the last call
Answered(name, arg, isFed, failing, line, result, exc, recs, hsets, gone) ==
    /\ op' = name
    /\ uids' = arg
    /\ fed' = isFed
    /\ fails' = failing
    /\ reply' = line
    /\ ret' = result
    /\ raised' = exc
    /\ records' = recs
    /\ hset_calls' = hsets
    /\ args' = None
    /\ expunged' = gone

\* the same for a call that sends no EXPUNGE
Called(name, arg, isFed, failing, line, result, exc, recs, hsets) ==
    Answered(name, arg, isFed, failing, line, result, exc, recs, hsets, {})

(***************************************************************************)
(* The environment: a message arrives and gets the next UID.               *)
(***************************************************************************)
Arrive ==
    /\ uidnext <= LastUid
    /\ folder' = folder \cup {uidnext}
    /\ uidnext' = uidnext + 1
    /\ op' = "Arrive"
    /\ UNCHANGED <<imap_server, uid, uid_value, deleted, flagged,
                   uids, fed, fails, reply, ret, raised, records, hset_calls, args, expunged>>

(***************************************************************************)
(* Mailbox.initialize_uid                                                  *)
(***************************************************************************)
\* a variant that takes the identifier listed last for the highest one
last_uid(line) == int(split(line)[Len(split(line))])

\* max(int(uid.decode('utf-8')) for uid in uids[0].split())
max_uid(line) == Max({int(t) : t \in Range(split(line))})

\* a variant that takes the number of messages for the highest identifier
initialize_uid_count(line, k) ==
    IF line # <<>> THEN Some(Len(split(line)) - 1 - k) ELSE uid

\* a variant that takes the maximum of an empty listing to be 0
initialize_uid_default(line, k) ==
    IF line # <<>> THEN Some(max_uid(line) - 1 - k) ELSE Some(0 - 1 - k)

\* self.uid after initialize_uid(k) got `line` as uids[0]
initialize_uid_assign(line, k) ==
    IF line # <<>> THEN Some(max_uid(line) - 1 - k) ELSE uid

initialize_uid(k) ==
    \/ \* the search raises (no connection, wrong state, command error): logged
       /\ UNCHANGED <<imap_server, uid, uid_value, server_vars>>
       /\ Called("initialize_uid", None, FALSE, {}, None, None, FALSE, <<>>, <<>>)
    \/ /\ CanCommand
       /\ \E listing \in Orders(SearchAll) :
            LET line == SearchLine(listing) IN
            /\ uid' = initialize_uid_assign(line, k)
            /\ uid_value' = IF line # <<>> THEN k ELSE uid_value
            /\ Called("initialize_uid", None, FALSE, {}, Some(line), None, FALSE, <<>>, <<>>)
       /\ UNCHANGED <<imap_server, server_vars>>

(***************************************************************************)
(* Mailbox.list_uids                                                       *)
(***************************************************************************)
\* a variant that trusts the server's range search and filters nothing
list_uids_unfiltered(tokens) == tokens

\* a variant that leaves out the identifier next to the watermark
list_uids_filter_from_next(tokens) == SelectSeq(tokens, LAMBDA t : int(t) > Val(uid) + 1)

\* [uid for uid in uids if int(uid) > int(self.uid)]
list_uids_filter(tokens) == SelectSeq(tokens, LAMBDA t : int(t) > Val(uid))

\* a variant that moves the watermark to the highest identifier it returns
list_uids_advancing ==
    \/ /\ UNCHANGED <<imap_server, uid, uid_value, server_vars>>
       /\ Called("list_uids", None, FALSE, {}, None, None, FALSE, <<>>, <<>>)
    \/ /\ CanCommand
       /\ uid # None
       /\ Val(uid) + 1 >= 0
       /\ \E listing \in Orders(SearchFrom(int(str(Val(uid) + 1)))) :
            LET line == SearchLine(listing)
                new  == list_uids_filter(split(line)) IN
            /\ Called("list_uids", None, FALSE, {}, Some(line), Some(new), FALSE, <<>>, <<>>)
            /\ uid' = IF new = <<>> THEN uid ELSE Some(Max({int(t) : t \in Range(new)}))
       /\ UNCHANGED <<imap_server, uid_value, server_vars>>

list_uids ==
    \/ \* int(self.uid) raises on None, or the search raises: logged, and the
       \* function ends without a return statement
       /\ UNCHANGED <<imap_server, uid, uid_value, server_vars>>
       /\ Called("list_uids", None, FALSE, {}, None, None, FALSE, <<>>, <<>>)
    \/ /\ CanCommand
       /\ uid # None
       /\ Val(uid) + 1 >= 0
       /\ \E listing \in Orders(SearchFrom(int(str(Val(uid) + 1)))) :
            LET line == SearchLine(listing) IN
            Called("list_uids", None, FALSE, {}, Some(line),
                   Some(list_uids_filter(split(line))), FALSE, <<>>, <<>>)
       /\ UNCHANGED <<imap_server, uid, uid_value, server_vars>>

(***************************************************************************)
(* The messages.  What message n holds is fixed by n: a text body, and     *)
(* after it no, one or several attachments.                                *)
(***************************************************************************)
Part(name, type, data) == [filename |-> name, content_type |-> type, payload |-> data]

\* list(message.walk()) of the message with UID n
walk(n) ==
    LET body == Part(None, "text/plain", n * Base) IN
    CASE n % 3 = 1 -> <<body>>
      [] n % 3 = 2 -> <<body,
                        Part(Some(<<"a", ".", "p", "d", "f">>), "application/pdf", n * Base + 1)>>
      [] OTHER     -> <<body,
                        Part(Some(<<"B", ".", "P", "D", "F">>), "application/pdf", n * Base + 1),
                        Part(Some(<<"p", "d", "f", "x", ".", "t", "x", "t">>), "text/plain", n * Base + 2),
                        Part(Some(<<"c", ".", "p", "d", "f">>), "application/octet-stream", n * Base + 3)>>

\* str(x) of a filename: None prints as "None"
str_filename(name) == IF name = None THEN <<"N", "o", "n", "e">> ELSE Val(name)

\* str.lower() on the letters that occur in the filenames
lower(s) ==
    [i \in 1..Len(s) |->
        CASE s[i] = "B" -> "b" [] s[i] = "D" -> "d" [] s[i] = "F" -> "f"
          [] s[i] = "N" -> "n" [] s[i] = "P" -> "p" [] OTHER -> s[i]]

\* sub in s
contains(sub, s) ==
    \E i \in 1..(Len(s) - Len(sub) + 1) : SubSeq(s, i, i + Len(sub) - 1) = sub

(***************************************************************************)
(* Mailbox.extract_all_pdfs                                                *)
(***************************************************************************)
\* a variant that compares the filename as it is written
extract_all_pdfs_case_sensitive(parts) ==
    LET chosen == SelectSeq(parts, LAMBDA part :
                      contains(<<".", "p", "d", "f">>, str_filename(part.filename)))
    IN  [i \in 1..Len(chosen) |-> chosen[i].payload]

extract_all_pdfs(parts) ==
    LET chosen == SelectSeq(parts, LAMBDA part :
                      contains(<<".", "p", "d", "f">>, lower(str_filename(part.filename))))
    IN  [i \in 1..Len(chosen) |-> chosen[i].payload]

(***************************************************************************)
(* Mailbox.configure_uid_specific_data                                     *)
(***************************************************************************)
\* whether fetching and decoding identifier u goes through: the session can
\* send the command, nothing fails on the way, and the server has the message
\* (a UID FETCH of a missing message answers OK with no data, and data[0][1]
\* then raises)
Fetched(u, failing) ==
    /\ CanCommand
    /\ u \notin failing
    /\ IsDecimal(u)
    /\ int(u) \in folder

\* the identifiers of a list for which it does not
Failed(batch, failing) == {u \in Range(batch) : ~Fetched(u, failing)}

configure_uid_specific_data(u, failing) ==
    IF Fetched(u, failing)
    THEN [message |-> Some(int(u)), pdfs |-> extract_all_pdfs(walk(int(u)))]
    ELSE [message |-> None, pdfs |-> <<>>]

(***************************************************************************)
(* Mailbox.create_invoice_and_idoc                                         *)
(***************************************************************************)
\* invoice_cls(uid, adress, message, business, subject, text, pdf)
Invoice(u, message, pdf) == [uid |-> u, message |-> message, pdf |-> pdf]

\* a variant without the else: the pair without attachment is always yielded
yield_for_unconditional(u, failing) ==
    LET data == configure_uid_specific_data(u, failing) IN
    <<Invoice(u, data.message, None)>>
        \o [i \in 1..Len(data.pdfs) |-> Invoice(u, data.message, Some(data.pdfs[i]))]

\* the pairs yielded for one identifier
yield_for(u, failing) ==
    LET data == configure_uid_specific_data(u, failing) IN
    IF data.pdfs = <<>>
    THEN <<Invoice(u, data.message, None)>>
    ELSE [i \in 1..Len(data.pdfs) |-> Invoice(u, data.message, Some(data.pdfs[i]))]

\* a variant in which a failing identifier ends the generator
RECURSIVE yield_until_failure(_, _)
yield_until_failure(batch, failing) ==
    IF batch = <<>> \/ ~Fetched(Head(batch), failing) THEN <<>>
    ELSE yield_for(Head(batch), failing) \o yield_until_failure(Tail(batch), failing)

\* a variant that goes through the list from its end
RECURSIVE yield_newest_first(_, _)
yield_newest_first(batch, failing) ==
    IF batch = <<>> THEN <<>>
    ELSE yield_newest_first(Tail(batch), failing) \o yield_for(Head(batch), failing)

\* the pairs yielded over the whole list, in order
RECURSIVE yield_all(_, _)
yield_all(batch, failing) ==
    IF batch = <<>> THEN <<>>
    ELSE yield_for(Head(batch), failing) \o yield_all(Tail(batch), failing)

\* a variant that sets \Flagged on every message it looks at
create_invoice_and_idoc_flagging(arg, isFed, failing) ==
    /\ IF arg = None
       THEN Called("create_invoice_and_idoc", arg, isFed, {}, None, None, TRUE, <<>>, <<>>)
       ELSE Called("create_invoice_and_idoc", arg, isFed, Failed(Val(arg), failing),
                   None, None, FALSE, yield_all(Val(arg), failing), <<>>)
    /\ flagged' = flagged \cup (IF arg = None THEN {}
                                ELSE {u \in folder : str(u) \in Range(Val(arg))})
    /\ UNCHANGED <<imap_server, uid, uid_value, folder, deleted, uidnext>>

create_invoice_and_idoc(arg, isFed, failing) ==
    /\ IF arg = None
       THEN \* for uid in None: TypeError, raised out of the generator
            Called("create_invoice_and_idoc", arg, isFed, {}, None, None, TRUE, <<>>, <<>>)
       ELSE Called("create_invoice_and_idoc", arg, isFed, Failed(Val(arg), failing),
                   None, None, FALSE, yield_all(Val(arg), failing), <<>>)
    /\ UNCHANGED <<imap_server, uid, uid_value, server_vars>>

(***************************************************************************)
(* Mailbox.set_metadata_redis                                              *)
(***************************************************************************)
\* rclient.hset(key, mapping={...}) for the message of identifier u
hset(u) == [key |-> u, message |-> int(u)]

\* the hset commands sent over the list; the try statement encloses the loop
RECURSIVE hset_all(_, _)
hset_all(batch, failing) ==
    IF batch = <<>> THEN <<>>
    ELSE IF Fetched(Head(batch), failing)
         THEN <<hset(Head(batch))>> \o hset_all(Tail(batch), failing)
         ELSE <<>>

set_metadata_redis(arg, isFed, failing) ==
    /\ IF arg = None
       THEN \* for uid in None: TypeError, inside the try statement
            Called("set_metadata_redis", arg, isFed, {}, None, None, FALSE, <<>>, <<>>)
       ELSE Called("set_metadata_redis", arg, isFed, Failed(Val(arg), failing),
                   None, None, FALSE, <<>>, hset_all(Val(arg), failing))
    /\ UNCHANGED <<imap_server, uid, uid_value, server_vars>>

(***************************************************************************)
(* Mailbox.delete_email / flag_email / list_inboxes                        *)
(***************************************************************************)
\* UID STORE +FLAGS: a UID the folder does not hold is ignored
Stored(u) == IF IsDecimal(u) THEN {int(u)} \cap folder ELSE {}

\* a variant that empties the folder up to the highest message marked
expunge_through(marked) == {x \in folder : \A m \in marked : x > m}

\* the folder after EXPUNGE: every message carrying \Deleted goes
expunge(marked) == folder \ marked

delete_email(u) ==
    /\ \/ \* the STORE raises
          UNCHANGED server_vars
       \/ \* the STORE is done, the EXPUNGE raises
          /\ CanCommand
          /\ deleted' = deleted \cup Stored(u)
          /\ UNCHANGED <<folder, flagged, uidnext>>
       \/ /\ CanCommand
          /\ folder' = expunge(deleted \cup Stored(u))
          /\ deleted' = {}
          /\ flagged' = flagged \cap folder'
          /\ UNCHANGED uidnext
    /\ Answered("delete_email", Some(<<u>>), FALSE, {}, None, None, FALSE, <<>>, <<>>,
                folder \ folder')
    /\ UNCHANGED <<imap_server, uid, uid_value>>

flag_email(u) ==
    /\ \/ UNCHANGED server_vars
       \/ /\ CanCommand
          /\ flagged' = flagged \cup Stored(u)
          /\ UNCHANGED <<folder, deleted, uidnext>>
    /\ Called("flag_email", Some(<<u>>), FALSE, {}, None, None, FALSE, <<>>, <<>>)
    /\ UNCHANGED <<imap_server, uid, uid_value>>

list_inboxes ==
    /\ Called("list_inboxes", None, FALSE, {}, None, None, FALSE, <<>>, <<>>)
    /\ UNCHANGED <<imap_server, uid, uid_value, server_vars>>

(***************************************************************************)
(* The callers.                                                            *)
(***************************************************************************)
UidStrs == {str(n) : n \in FirstUid..LastUid}
Batches == UNION {[1..n -> UidStrs] : n \in 0..MaxBatch}
\* the value list_uids has just returned
Listed == IF ret = None THEN <<>> ELSE Val(ret)

Next ==
    \/ Arrive
    \/ \E k \in Offsets : initialize_uid(k)
    \/ list_uids
    \/ /\ op = "list_uids"
       /\ \E failing \in SUBSET Range(Listed) : create_invoice_and_idoc(ret, TRUE, failing)
    \/ /\ op = "list_uids"
       /\ \E failing \in SUBSET Range(Listed) : set_metadata_redis(ret, TRUE, failing)
    \/ \E u \in UidStrs : delete_email(u)
    \/ \E u \in UidStrs : flag_email(u)
    \/ list_inboxes

Spec == Init /\ [][Next]_vars

(***************************************************************************)
(* The two list-driven operations on lists of the caller's own choosing.   *)
(* They read the session and the folder and change neither, so they are    *)
(* run from every folder the session can find: some of the messages that   *)
(* arrived are still there, the others were deleted.                       *)
(***************************************************************************)
InitBatch ==
    /\ imap_server \in {_connect(o) : o \in ConnectOutcomes}
    /\ uid = None
    /\ uid_value = 0
    /\ folder \in SUBSET (FirstUid..LastUid)
    /\ deleted = {}
    /\ flagged = {}
    /\ uidnext = LastUid + 1
    /\ op = "__init__"
    /\ uids = None
    /\ fed = FALSE
    /\ fails = {}
    /\ reply = None
    /\ ret = None
    /\ raised = FALSE
    /\ records = <<>>
    /\ hset_calls = <<>>
    /\ args = None
    /\ expunged = {}

NextBatch ==
    \/ \E batch \in Batches, failing \in SUBSET UidStrs :
          /\ failing \subseteq Range(batch)
          /\ create_invoice_and_idoc(Some(batch), FALSE, failing)
    \/ \E batch \in Batches, failing \in SUBSET UidStrs :
          /\ failing \subseteq Range(batch)
          /\ set_metadata_redis(Some(batch), FALSE, failing)

SpecBatch == InitBatch /\ [][NextBatch]_vars

(***************************************************************************)
(* Mailbox.should_process                                                  *)
(***************************************************************************)
\* a variant of re.search that looks at the start of the string only (re.match)
re_match(pattern, s) ==
    IF Len(pattern) <= Len(s) /\ SubSeq(s, 1, Len(pattern)) = pattern
    THEN Some(1) ELSE None

\* re.search(pattern, s) for a pattern without special characters: None, or
\* the match, here the place where it starts
re_search(pattern, s) ==
    LET starts == {i \in 1..(Len(s) - Len(pattern) + 1) :
                      SubSeq(s, i, i + Len(pattern) - 1) = pattern}
    IN  IF starts = {} THEN None
        ELSE Some(CHOOSE i \in starts : \A j \in starts : i <= j)

\* invoice.business in criteria and re.search(criteria[invoice.business],
\* invoice.subject): `and` returns its left operand when that is false
should_process(criteria, business, subject) ==
    IF business \notin DOMAIN criteria THEN [type |-> "bool", value |-> FALSE]
    ELSE LET found == re_search(criteria[business], subject) IN
         IF found = None THEN [type |-> "NoneType"]
         ELSE [type |-> "Match", start |-> Val(found)]

(***************************************************************************)
(* Mailbox.extract_business_                                               *)
(***************************************************************************)
Letters == {"a", "b"}
\* a character of the class [\w\.-]
IsAddressChar(c) ==
    c \in Letters \cup Range(Digits) \cup {"_", ".", "-"}

\* re.search(r'[\w\.-]+@[\w\.-]+', s): None, or the leftmost match, each
\* of its two runs as long as it can be
re_search_address(s) ==
    LET AllIn(a, b) == \A k \in a..b : IsAddressChar(s[k])
        starts == {i \in 1..Len(s) :
                      \E j \in (i + 1)..(Len(s) - 1) :
                          AllIn(i, j - 1) /\ s[j] = "@" /\ IsAddressChar(s[j + 1])}
    IN  IF starts = {} THEN None
        ELSE LET i == CHOOSE x \in starts : \A y \in starts : x <= y
                 j == CHOOSE x \in (i + 1)..Len(s) : s[x] = "@" /\ AllIn(i, x - 1)
                 e == CHOOSE x \in (j + 1)..Len(s) :
                          AllIn(j + 1, x) /\ (x = Len(s) \/ ~IsAddressChar(s[x + 1]))
             IN  Some(SubSeq(s, i, e))

\* str.split(sep) for a separator of one character
RECURSIVE split_on(_, _)
split_on(s, sep) ==
    LET at == {i \in 1..Len(s) : s[i] = sep} IN
    IF at = {} THEN <<s>>
    ELSE LET first == CHOOSE i \in at : \A j \in at : i <= j
         IN  <<SubSeq(s, 1, first - 1)>> \o split_on(SubSeq(s, first + 1, Len(s)), sep)

\* a variant that does not look at the number of labels in the domain
extract_business_unchecked(email_adress) ==
    LET match == re_search_address(email_adress)
        extracted_email == IF match # None THEN Val(match) ELSE email_adress
        email_parts == split_on(extracted_email, "@")
    IN  IF Len(email_parts) = 2 THEN Some(split_on(email_parts[2], ".")[1]) ELSE None

extract_business_(email_adress) ==
    LET match == re_search_address(email_adress)
        extracted_email == IF match # None THEN Val(match) ELSE email_adress
        email_parts == split_on(extracted_email, "@")
    IN  IF Len(email_parts) = 2
        THEN LET domain_parts == split_on(email_parts[2], ".")
             IN  IF Len(domain_parts) > 1 THEN Some(domain_parts[1]) ELSE None
        ELSE None

(***************************************************************************)
(* The two routing functions, each applied once to the arguments the       *)
(* initial state holds.                                                    *)
(***************************************************************************)
Strings(alphabet, n) == UNION {[1..k -> alphabet] : k \in 0..n}
Businesses == {<<"a">>, <<"b">>}
Patterns == {<<"x">>, <<"x", "y">>}
Subjects == Strings({"x", "y"}, MaxSubject)
Criteria == UNION {[keys -> Patterns] : keys \in SUBSET Businesses}
Addresses == Strings(Letters \cup {"@", ".", " "}, MaxAddress)

RoutingArgs ==
    [criteria : Criteria, business : Businesses \cup {None}, subject : Subjects]
        \cup [email_adress : Addresses]

InitRouting ==
    /\ imap_server \in {_connect(o) : o \in ConnectOutcomes}
    /\ uid = None
    /\ uid_value = 0
    /\ folder = {}
    /\ deleted = {}
    /\ flagged = {}
    /\ uidnext = FirstUid
    /\ op = "__init__"
    /\ uids = None
    /\ fed = FALSE
    /\ fails = {}
    /\ reply = None
    /\ ret = None
    /\ raised = FALSE
    /\ records = <<>>
    /\ hset_calls = <<>>
    /\ args \in RoutingArgs
    /\ expunged = {}

\* what a call of a routing function leaves: its name and what it returned
Routed(name, result) ==
    /\ op = "__init__"
    /\ op' = name
    /\ ret' = Some(result)
    /\ UNCHANGED <<imap_server, uid, uid_value, server_vars,
                   uids, fed, fails, reply, raised, records, hset_calls, args, expunged>>

call_should_process ==
    /\ "criteria" \in DOMAIN args
    /\ Routed("should_process", should_process(args.criteria, args.business, args.subject))

call_extract_business_ ==
    /\ "email_adress" \in DOMAIN args
    /\ Routed("extract_business_", extract_business_(args.email_adress))

NextRouting ==
    \/ call_should_process
    \/ call_extract_business_

SpecRouting == InitRouting /\ [][NextRouting]_vars

(***************************************************************************)
(* The claims.                                                             *)
(***************************************************************************)
IsAscending(l) == \A i, j \in 1..Len(l) : i < j => int(l[i]) < int(l[j])
AboveWatermark(l) == \A i \in 1..Len(l) : int(l[i]) > Val(uid)
Returned == op = "list_uids" /\ ret # None

Piped == op = "create_invoice_and_idoc" /\ uids # None

\* C2: an identifier whose fetch or decode fails contributes no record to
\* what create_invoice_and_idoc yields.
C2_Claim == Piped => \A i \in 1..Len(records) : records[i].uid \notin fails

\* C3: whatever identifiers of the list fail, create_invoice_and_idoc runs
\* to the end without raising, and each identifier that decodes yields the
\* records, in the order, that the pipeline yields for it with nothing else
\* in the list.
C3_Theorem ==
    Piped =>
        /\ raised = FALSE
        /\ \A u \in Range(Val(uids)) \ fails :
              SelectSeq(records, LAMBDA r : r.uid = u)
                  = yield_all(SelectSeq(Val(uids), LAMBDA v : v = u), {})

\* the first identifier of a list failed and the second one decoded
C3_Witness ==
    /\ Piped
    /\ Len(Val(uids)) = 2
    /\ Val(uids)[1] \in fails
    /\ Val(uids)[2] \notin fails

\* C4: set_metadata_redis writes a record for every identifier of its list
\* whose own fetch, decode and store go through, wherever a failing one stands.
C4_Claim ==
    (op = "set_metadata_redis" /\ uids # None) =>
        \A u \in Range(Val(uids)) \ fails :
            \E i \in 1..Len(hset_calls) : hset_calls[i].key = u

\* C5: list_uids never raises and returns a collection, an empty one when
\* the search failed, the session is not connected or the watermark is unset.
C5_Claim ==
    op = "list_uids" =>
        /\ raised = FALSE
        /\ ret # None
        /\ reply = None => ret = Some(<<>>)

\* C6: on a session whose connection failed, no operation raises, yields a
\* record or writes to the cache, create_invoice_and_idoc being given what
\* list_uids returned.
C6_Claim ==
    (imap_server # "SELECTED" /\ (op = "create_invoice_and_idoc" => fed)) =>
        raised = FALSE /\ records = <<>> /\ hset_calls = <<>>

\* C7: only initialize_uid assigns the watermark; every other operation,
\* failing or not, leaves it as it was.
C7_Theorem == [][op' # "initialize_uid" => uid' = uid]_vars

\* delete_email has removed the message the watermark was computed from,
\* and the watermark is still set
C7_Witness ==
    /\ op = "delete_email"
    /\ uid # None
    /\ Val(uid) + 1 + uid_value \notin folder
    /\ Val(uid) + 1 + uid_value < uidnext

Lowered == uid # None /\ uid' # None /\ Val(uid') < Val(uid)

\* C8 as stated: once set, the watermark only goes down in an initialize_uid
\* call that is given a larger offset than the one that set it.
C8_Original ==
    [][Lowered => (op' = "initialize_uid" /\ uid_value' > uid_value)]_vars

\* C8 amended: once set, the watermark only goes down in an initialize_uid
\* call, and then only when the call is given a larger offset than the one
\* that set it or finds a lower highest identifier in the folder than that
\* one did.
C8_Amended ==
    [][Lowered =>
          /\ op' = "initialize_uid"
          /\ \/ uid_value' > uid_value
             \/ Max(folder) < Val(uid) + 1 + uid_value]_vars

\* initialize_uid has set the watermark in a folder whose newest message
\* was removed
C8_Witness ==
    /\ op = "initialize_uid"
    /\ uid # None
    /\ folder # {}
    /\ Max(folder) < uidnext - 1
    /\ uid = Some(Max(folder) - 1 - uid_value)

\* C9: after initialize_uid(k) whose search went through on a folder that
\* is not empty, the watermark is the folder's highest identifier - 1 - k.
C9_Theorem ==
    (op = "initialize_uid" /\ reply # None /\ folder # {}) =>
        uid = Some(Max(folder) - 1 - uid_value)

\* initialize_uid was given an offset above 0 and a listing that starts with
\* the highest of several identifiers
C9_Witness ==
    /\ op = "initialize_uid"
    /\ reply # None
    /\ Cardinality(folder) >= 2
    /\ int(split(Val(reply))[1]) = Max(folder)
    /\ uid_value > 0

\* C10: initialize_uid on an empty folder, or whose search fails, leaves the
\* watermark as it was and does not raise.
C10_Theorem ==
    [][(op' = "initialize_uid" /\ (reply' = None \/ folder = {}))
          => (uid' = uid /\ raised' = FALSE)]_vars

\* initialize_uid has found the folder empty, with the watermark never set
C10_Witness ==
    /\ op = "initialize_uid"
    /\ reply = Some(<<>>)
    /\ uid = None

\* how often u stands in a list
Occurrences(u, l) == Cardinality({i \in 1..Len(l) : l[i] = u})
\* the records among those yielded that carry identifier u
RecordsOf(u) == SelectSeq(records, LAMBDA r : r.uid = u)
\* the identifiers of the list whose message was fetched and decoded
Decoded == Range(Val(uids)) \ fails

\* C11: each decoded message with N >= 1 PDF attachments yields N records,
\* one per attachment and all with the same message; one without PDF
\* attachment yields one record whose attachment is null; an empty list
\* yields no record.
C11_Theorem ==
    Piped =>
        /\ Val(uids) = <<>> => records = <<>>
        /\ \A u \in Decoded :
              LET pdfs == extract_all_pdfs(walk(int(u)))
                  recs == RecordsOf(u)
              IN  /\ Len(recs) = Occurrences(u, Val(uids))
                                    * (IF pdfs = <<>> THEN 1 ELSE Len(pdfs))
                  /\ \A i \in 1..Len(recs) :
                        /\ recs[i].message = Some(int(u))
                        /\ recs[i].pdf = IF pdfs = <<>> THEN None
                                         ELSE Some(pdfs[((i - 1) % Len(pdfs)) + 1])

\* one list held a decoded message with several PDF attachments and a
\* decoded message with none
C11_Witness ==
    /\ Piped
    /\ \E u, v \in Decoded :
          /\ Len(extract_all_pdfs(walk(int(u)))) >= 2
          /\ extract_all_pdfs(walk(int(v))) = <<>>

\* create_invoice_and_idoc was given what list_uids had just returned
Synced == Piped /\ fed
\* where identifier u stands in the list
Position(u) == CHOOSE k \in 1..Len(Val(uids)) : Val(uids)[k] = u
\* where the part with payload p stands in the message of identifier u
PartIndex(u, p) ==
    CHOOSE k \in 1..Len(walk(int(u))) : walk(int(u))[k].payload = p
\* records of lower identifiers come before those of higher ones
AscendingRecords ==
    \A i, j \in 1..Len(records) : i < j => int(records[i].uid) <= int(records[j].uid)
\* records come in the order of the identifiers in the list
ListOrderRecords ==
    \A i, j \in 1..Len(records) :
        i < j => Position(records[i].uid) <= Position(records[j].uid)
\* the records of one message come in the order of its attachments
AttachmentOrderRecords ==
    \A i, j \in 1..Len(records) :
        (i < j /\ records[i].uid = records[j].uid /\ records[i].pdf # None)
            => /\ records[j].pdf # None
               /\ PartIndex(records[i].uid, Val(records[i].pdf))
                     < PartIndex(records[j].uid, Val(records[j].pdf))

PayloadsNamed(sub, n) ==
    LET chosen == SelectSeq(walk(n), LAMBDA part :
                      part.filename # None /\ contains(sub, lower(Val(part.filename))))
    IN  [i \in 1..Len(chosen) |-> chosen[i].payload]
\* the attachments, in order, of the records yielded for identifier u
AttachmentsOf(u) ==
    LET with == SelectSeq(RecordsOf(u), LAMBDA r : r.pdf # None)
    IN  [i \in 1..Len(with) |-> Val(with[i].pdf)]
\* a list written out c times
RECURSIVE Repeated(_, _)
Repeated(l, c) == IF c = 0 THEN <<>> ELSE l \o Repeated(l, c - 1)

\* C13 as stated: the attachments extracted from a message are the payloads,
\* in part order, of exactly the parts whose filename contains "pdf" in any
\* letter case.
C13_Original ==
    Piped => \A u \in Decoded :
        AttachmentsOf(u)
            = Repeated(PayloadsNamed(<<"p", "d", "f">>, int(u)), Occurrences(u, Val(uids)))

\* C13 amended: the attachments extracted from a message are the payloads,
\* in part order, of exactly the parts whose filename contains ".pdf" in any
\* letter case; a part named "pdfx.txt" or without filename is not among them.
C13_Amended ==
    Piped => \A u \in Decoded :
        AttachmentsOf(u)
            = Repeated(PayloadsNamed(<<".", "p", "d", "f">>, int(u)), Occurrences(u, Val(uids)))

\* a decoded message held a part named in upper case that was extracted and
\* a part whose name holds "pdf" without the dot
C13_Witness ==
    /\ Piped
    /\ \E u \in Decoded :
          /\ Len(AttachmentsOf(u)) >= 2
          /\ \E k \in 1..Len(walk(int(u))) :
                /\ walk(int(u))[k].filename = Some(<<"B", ".", "P", "D", "F">>)
                /\ walk(int(u))[k].payload \in Range(AttachmentsOf(u))
          /\ PayloadsNamed(<<"p", "d", "f">>, int(u)) # PayloadsNamed(<<".", "p", "d", "f">>, int(u))

\* bool(v) of a value should_process returned
Truthy(v) == v.type = "Match" \/ (v.type = "bool" /\ v.value)

\* the business key of the call is a key of the criteria
KnownBusiness == args.business \in DOMAIN args.criteria

\* C14: should_process returns a true result exactly when the business key
\* is a key of the criteria and the pattern stored under it occurs somewhere
\* in the subject; for a key that is absent (None included) the result is
\* false whatever the other patterns would find.
C14_Theorem ==
    op = "should_process" =>
        (Truthy(Val(ret)) <=>
            (KnownBusiness /\ contains(args.criteria[args.business], args.subject)))

\* a call with an unknown business key, a pattern of the criteria occurring
\* in the subject, and a false result
C14_Witness ==
    /\ op = "should_process"
    /\ ~KnownBusiness
    /\ \E b \in DOMAIN args.criteria : contains(args.criteria[b], args.subject)
    /\ ~Truthy(Val(ret))

\* s[i..e] is local-part @ domain, both non-empty and of address characters
AddressShaped(s, i, e) ==
    \E j \in (i + 1)..(e - 1) :
        /\ s[j] = "@"
        /\ \A k \in (i..e) \ {j} : IsAddressChar(s[k])

\* the first address-shaped substring of s, as long as it can be, or s itself
FirstAddress(s) ==
    LET shaped == {p \in (1..Len(s)) \X (1..Len(s)) : AddressShaped(s, p[1], p[2])}
    IN  IF shaped = {} THEN s
        ELSE LET p == CHOOSE x \in shaped : \A y \in shaped :
                          x[1] < y[1] \/ (x[1] = y[1] /\ x[2] >= y[2])
             IN  SubSeq(s, p[1], p[2])

\* the first label of the domain of an address with one "@" and a dot in its
\* domain; None for any other address
FirstLabel(address) ==
    LET ats == {i \in 1..Len(address) : address[i] = "@"}
        dots == {i \in 1..Len(address) : address[i] = "." /\ \A a \in ats : i > a}
    IN  IF Cardinality(ats) = 1 /\ dots # {}
        THEN LET at == CHOOSE a \in ats : TRUE
                 dot == CHOOSE d \in dots : \A x \in dots : d <= x
             IN  Some(SubSeq(address, at + 1, dot - 1))
        ELSE None

\* C15: extract_business_ takes the first address-shaped substring of its
\* input, or the whole input when there is none, and returns the first label
\* of the domain when that address has exactly one "@" and a dot in its
\* domain; in every other case it returns None.
C15_Theorem ==
    op = "extract_business_" =>
        Val(ret) = FirstLabel(FirstAddress(args.email_adress))

\* a call whose input starts with a character that is not part of an address
\* and that returned a label
C15_Witness ==
    /\ op = "extract_business_"
    /\ Len(args.email_adress) > 0
    /\ ~IsAddressChar(args.email_adress[1])
    /\ Val(ret) # None
    /\ Val(ret) # Some(<<>>)

\* the identifiers of a list of decimal strings
Ints(l) == {int(t) : t \in Range(l)}

\* C16: whenever the watermark is set and the search succeeds, list_uids
\* returns exactly the identifiers of the folder that are strictly greater
\* than the watermark: none is omitted, and the list is empty when there is
\* none, although the server then lists the highest identifier.
C16_Theorem == Returned => Ints(Val(ret)) = {u \in folder : u > Val(uid)}

\* list_uids returned an empty list from a reply that lists an identifier
C16_Witness == Returned /\ Val(ret) = <<>> /\ split(Val(reply)) # <<>>

\* the last call was an initialize_uid whose search the server answered (the
\* only call that leaves a reply and returns nothing); messages may have
\* arrived since
InitializeReturned == reply # None /\ ret = None

\* C17: on a connected session whose server commands succeed, a message that
\* arrives after initialize_uid has returned is in the result of the next
\* list_uids, whatever the folder held when initialize_uid was called, an
\* empty folder included.  (A list_uids that fails with the watermark set is
\* a failure of the server and is left aside.)
C17_Claim ==
    [][(/\ op = "Arrive"
        /\ InitializeReturned
        /\ CanCommand
        /\ op' = "list_uids"
        /\ (uid = None \/ ret' # None))
          => (ret' # None /\ (uidnext - 1) \in Ints(Val(ret')))]_vars

\* the operations that list, fetch and fill the cache
ReadingOps ==
    {"initialize_uid", "list_uids", "create_invoice_and_idoc", "set_metadata_redis"}

Target(l) == IF IsDecimal(l[1]) THEN {int(l[1])} ELSE {}

\* C19 as stated: delete_email removes from the folder at most the message
\* with the identifier it is given, whatever came before, an earlier
\* delete_email whose EXPUNGE failed included; flag_email removes no message.
C19_Original ==
    [][/\ op' = "delete_email" => (folder \ folder') \subseteq Target(Val(uids'))
       /\ op' = "flag_email" => folder \subseteq folder']_vars

\* C19 amended: delete_email removes from the folder at most the message with
\* the identifier it is given and the messages that carried \Deleted before
\* the call; every other message stays; flag_email removes no message.
C19_Amended ==
    [][/\ op' = "delete_email" =>
            (folder \ folder') \subseteq (Target(Val(uids')) \cup deleted)
       /\ op' = "flag_email" => folder \subseteq folder']_vars

\* delete_email has removed its own message and another one
C19_Witness ==
    /\ op = "delete_email"
    /\ Target(Val(uids)) \subseteq expunged
    /\ expunged \ Target(Val(uids)) # {}
====
